---- MODULE Spec2Model ----
(***************************************************************************)
(* Model of main.py: the LungDoctor command loop.                          *)
(*                                                                         *)
(* Text typed at the prompt is a sequence of one-character strings, so     *)
(* that strip(), replace() and lower() are computed character by           *)
(* character.  Probabilities and thresholds are integers in units of       *)
(* 1/10000 (0.1241 is 1241).  The model file, the file system, the image   *)
(* decoder and the inference runtime are the environment; the loaded       *)
(* network has one output per entry of class_names.                        *)
(*                                                                         *)
(* pc follows the script: "start" (before LungDoctor()), "prompt" (about   *)
(* to call input()), "diagnose", "preprocess", "predict", "rows",          *)
(* "conclusion" (inside diagnose), "done" (after break) and "crashed"      *)
(* (after the handler of line 110).  out holds the tail of standard        *)
(* output from the latest prompt on; printed lines carry the source line   *)
(* of their print statement and their text without the pictographs.        *)
(***************************************************************************)
EXTENDS Integers, Sequences, FiniteSets, TLC

VARIABLES
    pc,             \* position of the script
    modelFile,      \* environment: state of MODEL_PATH on disk
    model,          \* doctor.model
    loads,          \* number of completed load_model calls
    thresholds,     \* METADATA["thresholds"]
    raw,            \* the line last returned by input()
    path,           \* main's variable path
    prompts,        \* number of input() calls made
    diagnoseCalls,  \* number of doctor.diagnose calls made
    processed_img,  \* diagnose's local processed_img
    predictions,    \* diagnose's local predictions
    findings,       \* diagnose's local findings
    idx,            \* number of loop iterations of the report loop done
    out,            \* lines printed since (and including) the latest prompt
    error           \* the exception caught by the outer handler

vars == <<pc, modelFile, model, loads, thresholds, raw, path, prompts,
          diagnoseCalls, processed_img, predictions, findings, idx, out, error>>

locals == <<processed_img, predictions, findings, idx>>

-----------------------------------------------------------------------------
(* Bounds of the model *)

\* input() is called at most this many times in a run
MaxPrompts == 2

\* a probability that lies above some thresholds and below others
MidProb == 1700

-----------------------------------------------------------------------------
(* METADATA *)

NumClasses == 5

\* METADATA["class_names"], keyed idx + 1
ClassNames == <<"Covid", "Normal", "Pneumonia", "Tuberculosis", "Tumor">>

\* METADATA["thresholds"] as written in the source
InitialThresholds ==
    [n \in {"Covid", "Normal", "Pneumonia", "Tuberculosis", "Tumor"} |->
        CASE n = "Covid"        -> 1241
          [] n = "Normal"       -> 1651
          [] n = "Pneumonia"    -> 2921
          [] n = "Tuberculosis" -> 1766
          [] n = "Tumor"        -> 1009]

-----------------------------------------------------------------------------
(* str methods used on the input line *)

IsSpace(c) == c \in {" ", "\t"}

RECURSIVE LStrip(_)
LStrip(s) ==
    IF s = <<>> THEN <<>>
    ELSE IF IsSpace(Head(s)) THEN LStrip(Tail(s)) ELSE s

RECURSIVE RStrip(_)
RStrip(s) ==
    IF s = <<>> THEN <<>>
    ELSE IF IsSpace(s[Len(s)]) THEN RStrip(SubSeq(s, 1, Len(s) - 1)) ELSE s

\* str.strip()
Strip(s) == RStrip(LStrip(s))

\* str.replace(c, '')
RECURSIVE Remove(_, _)
Remove(s, c) ==
    IF s = <<>> THEN <<>>
    ELSE IF Head(s) = c THEN Remove(Tail(s), c)
         ELSE <<Head(s)>> \o Remove(Tail(s), c)

LowerChar(c) ==
    CASE c = "E" -> "e"
      [] c = "X" -> "x"
      [] c = "I" -> "i"
      [] c = "T" -> "t"
      [] c = "Q" -> "q"
      [] c = "U" -> "u"
      [] c = "A" -> "a"
      [] OTHER   -> c

\* str.lower()
Lower(s) == [i \in 1..Len(s) |-> LowerChar(s[i])]

\* input(...).strip().replace('"', '').replace("'", "")
CleanPath(line) == Remove(Remove(Strip(line), "\""), "'")

\* variant of IsExit: the comparison is case-sensitive
IsExitCaseSensitive(p) ==
    p \in {<<"e", "x", "i", "t">>, <<"q", "u", "i", "t">>}

\* path.lower() in ['exit', 'quit']
IsExit(p) == Lower(p) \in {<<"e", "x", "i", "t">>, <<"q", "u", "i", "t">>}

\* str.join
RECURSIVE Join(_, _)
Join(sep, names) ==
    IF names = <<>> THEN ""
    ELSE IF Len(names) = 1 THEN names[1]
         ELSE names[1] \o sep \o Join(sep, Tail(names))

-----------------------------------------------------------------------------
(* The environment *)

\* the states MODEL_PATH can be in when the script starts
ModelFileStates == {"absent", "corrupt", "valid"}

\* paths for which os.path.exists is true
FileSystem == {<<"a">>, <<"b">>}

\* files that load_img can decode
Images == {<<"a">>}

\* lines the user may type
InputLines ==
    { <<"e", "x", "i", "t">>,
      <<" ", "Q", "U", "I", "T", "\t">>,
      <<"'", "E", "x", "i", "t", "'">>,
      <<"e", "x", "\"", "i", "t">>,
      <<"'", " ", "e", "x", "i", "t", "'">>,
      <<"e", "x", "i", "t", "s">>,
      <<>>,
      <<" ", "\t">>,
      <<"'", "'">>,
      <<"\"", " ", "\"">>,
      <<"a">>,
      <<" ", "\"", "a", "\"">>,
      <<"A">>,
      <<"b">>,
      <<"c">> }

\* probabilities the inference runtime may return for class i
Probs(i) ==
    { InitialThresholds[ClassNames[i]],
      InitialThresholds[ClassNames[i]] + 1,
      MidProb }

\* the vectors self.model.predict(...)[0] may return
Vectors ==
    { <<a, b, c, d, e>> :
        a \in Probs(1), b \in Probs(2), c \in Probs(3),
        d \in Probs(4), e \in Probs(5) }

-----------------------------------------------------------------------------
(* Printed lines: src is the source line of the print statement *)

Line(src, text) ==
    [src |-> src, text |-> text, name |-> "", prob |-> 0, threshold |-> 0,
     status |-> ""]

\* print(f"{name:<15}: {prob:.1%} (Cutoff: {threshold:.1%}) -> {status}")
Row(name, prob, threshold, status) ==
    [src |-> 78, text |-> "", name |-> name, prob |-> prob,
     threshold |-> threshold, status |-> status]

LoadingLine  == Line(36, "Loading AI Brain... (DenseNet121)")
OnlineLine   == Line(41, "AI System Online.")
NotFoundLine == Line(54, "Error: File not found.")
AnalyzeLine  == Line(57, "Analyzing Patient")
HeaderLine   == Line(65, "--- DETAILED REPORT ---")
RuleLine     == Line(81, "------------------------------")
PromptLine   == Line(103, "Drag & Drop X-ray file here (or type 'exit'): ")
CriticalLine == Line(111, "Critical Error")

-----------------------------------------------------------------------------
(* Control flow helpers *)

\* variant of Raise: the handler sits inside the while loop
RaiseAndContinue(e, printed) ==
    /\ pc' = "prompt"
    /\ error' = e
    /\ out' = Append(printed, CriticalLine)

\* an exception leaves the try block: the handler prints and the script ends
Raise(e, printed) ==
    /\ pc' = "crashed"
    /\ error' = e
    /\ out' = Append(printed, CriticalLine)

\* diagnose's frame is dropped
DropLocals ==
    /\ processed_img' = "None"
    /\ predictions' = <<>>
    /\ findings' = <<>>
    /\ idx' = 0

\* diagnose returns into the while loop
Return ==
    /\ pc' = "prompt"
    /\ DropLocals

-----------------------------------------------------------------------------
(* Initial state: nothing has run *)

Init ==
    /\ pc = "start"
    /\ modelFile \in ModelFileStates
    /\ model = "None"
    /\ loads = 0
    /\ thresholds = InitialThresholds
    /\ raw = <<>>
    /\ path = <<>>
    /\ prompts = 0
    /\ diagnoseCalls = 0
    /\ processed_img = "None"
    /\ predictions = <<>>
    /\ findings = <<>>
    /\ idx = 0
    /\ out = <<>>
    /\ error = "None"

-----------------------------------------------------------------------------
(* doctor = LungDoctor() *)

\* os.path.exists(MODEL_PATH) is false
InitModelMissing ==
    /\ pc = "start"
    /\ modelFile = "absent"
    /\ Raise("FileNotFoundError", Append(out, LoadingLine))
    /\ UNCHANGED <<modelFile, model, loads, thresholds, raw, path, prompts,
                   diagnoseCalls, locals>>

\* load_model raises
InitLoadFails ==
    /\ pc = "start"
    /\ modelFile = "corrupt"
    /\ Raise("LoadError", Append(out, LoadingLine))
    /\ UNCHANGED <<modelFile, model, loads, thresholds, raw, path, prompts,
                   diagnoseCalls, locals>>

InitOk ==
    /\ pc = "start"
    /\ modelFile = "valid"
    /\ model' = "loaded"
    /\ loads' = loads + 1
    /\ out' = out \o <<LoadingLine, OnlineLine>>
    /\ pc' = "prompt"
    /\ UNCHANGED <<modelFile, thresholds, raw, path, prompts, diagnoseCalls,
                   locals, error>>

-----------------------------------------------------------------------------
(* One pass of the while loop up to the call of diagnose *)

\* lines 104-108: break, call diagnose, or go round again
Dispatch(p) ==
    IF IsExit(p)
    THEN pc' = "done" /\ UNCHANGED diagnoseCalls
    ELSE IF p # <<>>
         THEN pc' = "diagnose" /\ diagnoseCalls' = diagnoseCalls + 1
         ELSE pc' = "prompt" /\ UNCHANGED diagnoseCalls

\* variant of ReadInput: the model is loaded again on every pass
ReadInputReloading(line) ==
    /\ pc = "prompt"
    /\ prompts < MaxPrompts
    /\ prompts' = prompts + 1
    /\ out' = <<PromptLine>>
    /\ raw' = line
    /\ path' = CleanPath(line)
    /\ Dispatch(CleanPath(line))
    /\ model' = "loaded"
    /\ loads' = loads + 1
    /\ UNCHANGED <<modelFile, thresholds, locals, error>>

ReadInput(line) ==
    /\ pc = "prompt"
    /\ prompts < MaxPrompts
    /\ prompts' = prompts + 1
    /\ out' = <<PromptLine>>
    /\ raw' = line
    /\ path' = CleanPath(line)
    /\ Dispatch(CleanPath(line))
    /\ UNCHANGED <<modelFile, model, loads, thresholds, locals, error>>

\* input() raises EOFError at end of input
ReadEOF ==
    /\ pc = "prompt"
    /\ prompts < MaxPrompts
    /\ prompts' = prompts + 1
    /\ Raise("EOFError", <<PromptLine>>)
    /\ UNCHANGED <<modelFile, model, loads, thresholds, raw, path,
                   diagnoseCalls, locals>>

-----------------------------------------------------------------------------
(* doctor.diagnose(path) *)

\* variant of DiagnoseCheckFile: the existence check is missing
DiagnoseNoCheck ==
    /\ pc = "diagnose"
    /\ out' = Append(out, AnalyzeLine)
    /\ pc' = "preprocess"
    /\ UNCHANGED <<modelFile, model, loads, thresholds, raw, path, prompts,
                   diagnoseCalls, locals, error>>

\* lines 53-57: the existence check
DiagnoseCheckFile ==
    /\ pc = "diagnose"
    /\ IF path \notin FileSystem
       THEN /\ out' = Append(out, NotFoundLine)
            /\ Return
       ELSE /\ out' = Append(out, AnalyzeLine)
            /\ pc' = "preprocess"
            /\ UNCHANGED locals
    /\ UNCHANGED <<modelFile, model, loads, thresholds, raw, path, prompts,
                   diagnoseCalls, error>>

\* line 60: processed_img = self.preprocess_image(img_path)
Preprocess ==
    /\ pc = "preprocess"
    /\ IF path \in Images
       THEN /\ processed_img' = "array"
            /\ pc' = "predict"
            /\ UNCHANGED <<predictions, findings, idx, out, error>>
       ELSE /\ Raise("UnidentifiedImageError", out)
            /\ DropLocals
    /\ UNCHANGED <<modelFile, model, loads, thresholds, raw, path, prompts,
                   diagnoseCalls>>

\* lines 61-65: inference returns a vector; findings = []; the header is printed
PredictOk(v) ==
    /\ pc = "predict"
    /\ predictions' = v
    /\ findings' = <<>>
    /\ idx' = 0
    /\ out' = Append(out, HeaderLine)
    /\ pc' = "rows"
    /\ UNCHANGED <<modelFile, model, loads, thresholds, raw, path, prompts,
                   diagnoseCalls, processed_img, error>>

\* line 61: inference raises
PredictFail ==
    /\ pc = "predict"
    /\ Raise("InferenceError", out)
    /\ DropLocals
    /\ UNCHANGED <<modelFile, model, loads, thresholds, raw, path, prompts,
                   diagnoseCalls>>

\* variant of IsDetected: the comparison is not strict
IsDetectedInclusive(prob, threshold) == prob >= threshold

\* line 71: is_detected = prob > threshold
IsDetected(prob, threshold) == prob > threshold

\* variant of ThresholdOf: one cutoff is used for every class
ThresholdOfFirstClass(name) == thresholds[ClassNames[1]]

\* line 69: threshold = METADATA["thresholds"][name]
ThresholdOf(name) == thresholds[name]

\* line 72
StatusOf(is_detected) == IF is_detected THEN "DETECTED" ELSE "Clear"

\* variant of ReportRow: the loop is left after its first iteration
ReportRowOnce ==
    /\ pc = "rows"
    /\ idx < Len(predictions)
    /\ LET prob        == predictions[idx + 1]
           name        == ClassNames[idx + 1]
           threshold   == ThresholdOf(name)
           is_detected == IsDetected(prob, threshold)
       IN  /\ findings' = IF is_detected THEN Append(findings, name)
                          ELSE findings
           /\ out' = Append(out, Row(name, prob, threshold,
                                     StatusOf(is_detected)))
    /\ idx' = idx + 1
    /\ pc' = "conclusion"
    /\ UNCHANGED <<modelFile, model, loads, thresholds, raw, path, prompts,
                   diagnoseCalls, processed_img, predictions, error>>

\* lines 67-78: one iteration of the report loop
ReportRow ==
    /\ pc = "rows"
    /\ idx < Len(predictions)
    /\ LET prob        == predictions[idx + 1]
           name        == ClassNames[idx + 1]
           threshold   == ThresholdOf(name)
           is_detected == IsDetected(prob, threshold)
       IN  /\ findings' = IF is_detected THEN Append(findings, name)
                          ELSE findings
           /\ out' = Append(out, Row(name, prob, threshold,
                                     StatusOf(is_detected)))
    /\ idx' = idx + 1
    /\ pc' = IF idx + 1 = Len(predictions) THEN "conclusion" ELSE "rows"
    /\ UNCHANGED <<modelFile, model, loads, thresholds, raw, path, prompts,
                   diagnoseCalls, processed_img, predictions, error>>

Contains(s, x) == \E i \in 1..Len(s) : s[i] = x

NotNormal(f) == f # "Normal"

\* variant of RealDiseases: Normal is not filtered out
RealDiseasesUnfiltered(f) == f

\* line 85: real_diseases = [f for f in findings if f != "Normal"]
RealDiseases(f) == SelectSeq(f, NotNormal)

\* variant of Verdict: a Normal finding wins whatever else was found
VerdictNormalWins(f) ==
    IF Contains(f, "Normal")
    THEN Line(83, "FINAL DIAGNOSIS: Healthy Lungs")
    ELSE IF f # <<>>
         THEN Line(87, "FINAL DIAGNOSIS: Signs of "
                       \o Join(", ", SelectSeq(f, NotNormal)))
         ELSE Line(91, "FINAL DIAGNOSIS: Inconclusive (Low confidence)")

\* variant of Verdict: the first test looks for the wrong spelling
VerdictMisspelt(f) ==
    IF Contains(f, "normal") /\ Len(f) = 1
    THEN Line(83, "FINAL DIAGNOSIS: Healthy Lungs")
    ELSE IF f # <<>>
         THEN IF SelectSeq(f, NotNormal) # <<>>
              THEN Line(87, "FINAL DIAGNOSIS: Signs of "
                            \o Join(", ", SelectSeq(f, NotNormal)))
              ELSE Line(89, "FINAL DIAGNOSIS: Healthy Lungs")
         ELSE Line(91, "FINAL DIAGNOSIS: Inconclusive (Low confidence)")

\* lines 82-91: the line the conclusion prints for a list of findings
Verdict(f) ==
    IF Contains(f, "Normal") /\ Len(f) = 1
    THEN Line(83, "FINAL DIAGNOSIS: Healthy Lungs")
    ELSE IF f # <<>>
         THEN IF RealDiseases(f) # <<>>
              THEN Line(87, "FINAL DIAGNOSIS: Signs of "
                            \o Join(", ", RealDiseases(f)))
              ELSE Line(89, "FINAL DIAGNOSIS: Healthy Lungs")
         ELSE Line(91, "FINAL DIAGNOSIS: Inconclusive (Low confidence)")

\* lines 80-91, then diagnose returns
Conclude ==
    /\ pc = "conclusion"
    /\ out' = out \o <<RuleLine, Verdict(findings)>>
    /\ Return
    /\ UNCHANGED <<modelFile, model, loads, thresholds, raw, path, prompts,
                   diagnoseCalls, error>>

-----------------------------------------------------------------------------

Next ==
    \/ InitModelMissing
    \/ InitLoadFails
    \/ InitOk
    \/ \E line \in InputLines : ReadInput(line)
    \/ ReadEOF
    \/ DiagnoseCheckFile
    \/ Preprocess
    \/ \E v \in Vectors : PredictOk(v)
    \/ PredictFail
    \/ ReportRow
    \/ Conclude

Spec == Init /\ [][Next]_vars

\* a sequential script keeps running while a statement is left to run
FairSpec == Spec /\ WF_vars(Next)

-----------------------------------------------------------------------------
(* Vocabulary of the properties, defined without the operators above *)

Diseases == {"Covid", "Pneumonia", "Tuberculosis", "Tumor"}

\* the classes of vector v whose probability exceeds their threshold
DetectedSet(v) ==
    { ClassNames[i] :
        i \in {j \in 1..Len(v) : v[j] > InitialThresholds[ClassNames[j]]} }

RECURSIVE CommaList(_)
CommaList(names) ==
    IF Len(names) = 0 THEN ""
    ELSE names[1] \o (IF Len(names) > 1 THEN ", " \o CommaList(Tail(names))
                      ELSE "")

\* the diseases of set S in class-index order, joined by ", "
DiseaseList(S) ==
    CommaList((IF "Covid" \in S THEN <<"Covid">> ELSE <<>>)
              \o (IF "Pneumonia" \in S THEN <<"Pneumonia">> ELSE <<>>)
              \o (IF "Tuberculosis" \in S THEN <<"Tuberculosis">> ELSE <<>>)
              \o (IF "Tumor" \in S THEN <<"Tumor">> ELSE <<>>))

HealthyText == "FINAL DIAGNOSIS: Healthy Lungs"
InconclusiveText == "FINAL DIAGNOSIS: Inconclusive (Low confidence)"
SignsText(S) == "FINAL DIAGNOSIS: Signs of " \o DiseaseList(S)

\* the print statements of the conclusion: lines 83, 87, 89, 91
IsFinal(l) == l.src \in {83, 87, 89, 91}
IsSigns(l) == l.src = 87
IsInconclusive(l) == l.src = 91
IsRow(l) == l.src = 78

\* the lines a step prints
Printed == SubSeq(out', Len(out) + 1, Len(out'))

\* the rows among the lines on screen, and the classes they report DETECTED
RowsShown == SelectSeq(out, IsRow)
ShownDetected == { out[i].name : i \in {j \in 1..Len(out) :
                       IsRow(out[j]) /\ out[j].status = "DETECTED"} }
FinalShown == SelectSeq(out, IsFinal)

-----------------------------------------------------------------------------
\* C1: whenever the conclusion runs on a vector whose detected set is exactly
\* {Normal}, it prints the healthy verdict and prints neither a "Signs of"
\* nor an "Inconclusive" line.
C1_LoneNormalHealthy ==
    [][(pc = "conclusion" /\ DetectedSet(predictions) = {"Normal"})
        => /\ \E i \in 1..Len(Printed) : Printed[i].text = HealthyText
           /\ \A i \in 1..Len(Printed) :
                ~IsSigns(Printed[i]) /\ ~IsInconclusive(Printed[i])]_vars

\* C1 witness: a report with Normal alone DETECTED and the healthy verdict
C1_Witness ==
    /\ pc = "prompt"
    /\ Len(RowsShown) = NumClasses
    /\ ShownDetected = {"Normal"}
    /\ Len(FinalShown) = 1
    /\ FinalShown[1].text = HealthyText

\* C2: whenever the conclusion runs on a vector with at least one detected
\* non-Normal class, the verdict is "Signs of" followed by exactly the
\* detected non-Normal classes in class-index order joined by ", ".
C2_SignsOfList ==
    [][(pc = "conclusion" /\ DetectedSet(predictions) \cap Diseases # {})
        => /\ Len(Printed) > 0
           /\ IsSigns(Printed[Len(Printed)])
           /\ Printed[Len(Printed)].text
                = SignsText(DetectedSet(predictions) \cap Diseases)]_vars

\* C2 witness: a report with two diseases DETECTED, listed in index order
C2_Witness ==
    /\ pc = "prompt"
    /\ ShownDetected = {"Covid", "Tumor"}
    /\ Len(FinalShown) = 1
    /\ FinalShown[1].text = "FINAL DIAGNOSIS: Signs of Covid, Tumor"

\* C3 as stated: whenever Normal and at least one disease are both detected,
\* the verdict printed is the healthy one.
C3_NormalOverrides ==
    [][(/\ pc = "conclusion"
        /\ "Normal" \in DetectedSet(predictions)
        /\ DetectedSet(predictions) \cap Diseases # {})
        => Printed[Len(Printed)].text = HealthyText]_vars

\* C3 amended: whenever Normal and at least one disease are both detected,
\* the disease detections override Normal: the verdict is the "Signs of"
\* line listing the detected diseases, and it is not the healthy verdict.
C3_DiseaseOverrides ==
    [][(/\ pc = "conclusion"
        /\ "Normal" \in DetectedSet(predictions)
        /\ DetectedSet(predictions) \cap Diseases # {})
        => /\ Printed[Len(Printed)].text
                = SignsText(DetectedSet(predictions) \ {"Normal"})
           /\ \A i \in 1..Len(Printed) : Printed[i].text # HealthyText]_vars

\* C3 witness: Normal and Pneumonia both DETECTED, verdict names Pneumonia
C3_Witness ==
    /\ pc = "prompt"
    /\ ShownDetected = {"Normal", "Pneumonia"}
    /\ Len(FinalShown) = 1
    /\ FinalShown[1].text = "FINAL DIAGNOSIS: Signs of Pneumonia"

-----------------------------------------------------------------------------
\* the verdict text that belongs to a set D of detected classes
VerdictTextFor(D) ==
    IF D = {} THEN InconclusiveText
    ELSE IF D = {"Normal"} THEN HealthyText
    ELSE SignsText(D \cap Diseases)

\* the report of vector v: five rows, the rule, the verdict text
ReportTextFor(v) ==
    [i \in 1..(Len(v) + 2) |->
        IF i <= Len(v)
        THEN [src |-> 78, text |-> "", name |-> ClassNames[i], prob |-> v[i],
              threshold |-> InitialThresholds[ClassNames[i]],
              status |-> IF v[i] > InitialThresholds[ClassNames[i]]
                         THEN "DETECTED" ELSE "Clear"]
        ELSE IF i = Len(v) + 1
        THEN [src |-> 81, text |-> "------------------------------",
              name |-> "", prob |-> 0, threshold |-> 0, status |-> ""]
        ELSE [src |-> 0, text |-> VerdictTextFor(DetectedSet(v)),
              name |-> "", prob |-> 0, threshold |-> 0, status |-> ""]]

\* line l with its source line left out
NoSrc(l) == [l EXCEPT !.src = 0]

\* C10: every conclusion step prints exactly one final diagnosis line; it is
\* Inconclusive iff no class is detected, Healthy iff the detected set is
\* exactly {Normal}, and "Signs of" otherwise; the fallback Healthy print
\* of line 89 is never executed.
C10_VerdictTotal ==
    [][pc = "conclusion"
        => LET D == DetectedSet(predictions)
               F == SelectSeq(Printed, IsFinal)
           IN  /\ Len(F) = 1
               /\ (F[1].text = InconclusiveText) <=> (D = {})
               /\ (F[1].text = HealthyText) <=> (D = {"Normal"})
               /\ IsSigns(F[1]) <=> (D # {} /\ D # {"Normal"})
               /\ F[1].text = VerdictTextFor(D)
               /\ F[1].src # 89]_vars

\* C10 witness: a report with every class Clear and the Inconclusive verdict
C10_Witness ==
    /\ pc = "prompt"
    /\ Len(RowsShown) = NumClasses
    /\ ShownDetected = {}
    /\ Len(FinalShown) = 1
    /\ FinalShown[1].text = InconclusiveText

\* C7: each row reports DETECTED iff the probability is strictly greater
\* than the class's own threshold of the table as written (equal is Clear);
\* no step changes the threshold table; and the rows and verdict of a call
\* are a function of its prediction vector alone.
C7_FixedPerClassThresholds ==
    [][/\ thresholds' = thresholds
       /\ pc = "rows"
            => LET r == Printed[Len(Printed)]
                   n == ClassNames[idx + 1]
               IN  /\ Len(Printed) = 1
                   /\ r.name = n
                   /\ r.threshold = InitialThresholds[n]
                   /\ r.status \in {"DETECTED", "Clear"}
                   /\ (r.status = "DETECTED")
                        <=> (predictions[idx + 1] > InitialThresholds[n])
       /\ pc = "conclusion"
            => LET shown == SelectSeq(out', LAMBDA l : l.src \in {78, 81}
                                                       \/ IsFinal(l))
               IN  [i \in 1..Len(shown) |->
                       IF IsFinal(shown[i]) THEN NoSrc(shown[i])
                       ELSE shown[i]]
                   = ReportTextFor(predictions)]_vars

\* C7 witness: the second call of a run reports a class whose probability
\* equals its threshold as Clear and one just above its threshold as DETECTED
C7_Witness ==
    /\ diagnoseCalls = 2
    /\ \E i \in 1..Len(out) :
          /\ IsRow(out[i])
          /\ out[i].prob = out[i].threshold
          /\ out[i].status = "Clear"
    /\ \E i \in 1..Len(out) :
          /\ IsRow(out[i])
          /\ out[i].prob = out[i].threshold + 1
          /\ out[i].status = "DETECTED"
    /\ Len(FinalShown) = 1

\* C5: within a diagnose call inference runs only once preprocessing has
\* produced its array, the rows are printed one per class in index order
\* after the header, and a final diagnosis line is on screen only after all
\* five rows.
C5_StepOrder ==
    /\ pc = "predict" => processed_img = "array"
    /\ predictions # <<>> => processed_img = "array"
    /\ pc \in {"rows", "conclusion"}
         => /\ Len(predictions) = NumClasses
            /\ Len(out) = 3 + idx
            /\ out[2].src = 57 /\ out[3].src = 65
            /\ \A k \in 1..idx :
                  IsRow(out[3 + k]) /\ out[3 + k].name = ClassNames[k]
    /\ pc = "conclusion" => idx = NumClasses
    /\ \A k \in 1..Len(out) :
          IsFinal(out[k])
            => /\ k = Len(out)
               /\ k = 3 + NumClasses + 2
               /\ out[k - 1].src = 81
               /\ \A j \in 1..NumClasses :
                     IsRow(out[3 + j]) /\ out[3 + j].name = ClassNames[j]

\* C5 witness: a finished call with the verdict as the tenth line on screen
C5_Witness ==
    /\ pc = "prompt"
    /\ Len(out) = 3 + NumClasses + 2
    /\ IsFinal(out[Len(out)])
    /\ Len(RowsShown) = NumClasses

-----------------------------------------------------------------------------
(* Reading of an input line, defined without the operators of the model *)

Blank(c) == c = " " \/ c = "\t"
Quote(c) == c = "'" \/ c = "\""
NotQuote(c) == ~Quote(c)

\* line s without its leading and trailing whitespace
Stripped(s) ==
    LET ink == {i \in 1..Len(s) : ~Blank(s[i])}
    IN  IF ink = {} THEN <<>>
        ELSE SubSeq(s, CHOOSE i \in ink : \A j \in ink : i <= j,
                       CHOOSE i \in ink : \A j \in ink : i >= j)

\* line s stripped and with every quote character removed
Unquoted(s) == SelectSeq(Stripped(s), NotQuote)

\* letters a and b differ at most in case
SameLetter(a, b) ==
    \/ a = b
    \/ <<a, b>> \in {<<"E", "e">>, <<"X", "x">>, <<"I", "i">>, <<"T", "t">>,
                     <<"Q", "q">>, <<"U", "u">>}

EqualsIgnoringCase(s, word) ==
    /\ Len(s) = Len(word)
    /\ \A i \in 1..Len(s) : SameLetter(s[i], word[i])

\* line s is an exit command
ExitCommand(s) ==
    \/ EqualsIgnoringCase(Unquoted(s), <<"e", "x", "i", "t">>)
    \/ EqualsIgnoringCase(Unquoted(s), <<"q", "u", "i", "t">>)

InDiagnose == pc \in {"diagnose", "preprocess", "predict", "rows", "conclusion"}

\* a step in which input() returned a line
InputStep == prompts' = prompts + 1 /\ error' = "None"

CriticalCount(s) == Len(SelectSeq(s, LAMBDA l : l.src = 111))

\* the parts of C4 that do not depend on what counts as an empty input
LoadedOnce ==
    /\ loads' <= 1
    /\ pc # "start" => (loads' = loads /\ model' = model)
    /\ prompts' > prompts => (loads = 1 /\ model = "loaded")
    /\ InDiagnose => (loads = 1 /\ model = "loaded")
    /\ prompts' = prompts => diagnoseCalls' = diagnoseCalls

\* C4 as stated: the model is loaded once, before the first prompt, and never
\* again; every diagnose call runs with that model; and an input line causes
\* one diagnose call if it is non-empty after stripping and is not an exit
\* command, and none otherwise.
C4_AsStated ==
    [][/\ LoadedOnce
       /\ InputStep
            => diagnoseCalls' = diagnoseCalls +
                 (IF Stripped(raw') # <<>> /\ ~ExitCommand(raw')
                  THEN 1 ELSE 0)]_vars

\* C4 amended: the model is loaded once, before the first prompt, and never
\* again; every diagnose call runs with that model; and an input line causes
\* one diagnose call if it is non-empty after stripping and removing the
\* quote characters and is not an exit command, and none otherwise.
C4_LoadOnceOneCallPerPath ==
    [][/\ LoadedOnce
       /\ InputStep
            => diagnoseCalls' = diagnoseCalls +
                 (IF Unquoted(raw') # <<>> /\ ~ExitCommand(raw')
                  THEN 1 ELSE 0)]_vars

\* C4 witness: the first input caused a diagnose call that ran to its end,
\* the second input was a pair of quotes and caused none, and the model has
\* been loaded once
C4_Witness ==
    /\ prompts = 2
    /\ raw = <<"'", "'">>
    /\ path = <<>>
    /\ diagnoseCalls = 1
    /\ pc = "prompt"
    /\ loads = 1
    /\ model = "loaded"

\* C6: a failed model load and an exception in a diagnose call both end in
\* the outer handler: one Critical Error line is printed and nothing runs
\* after it (no prompt, no diagnose call); a Critical Error line is printed
\* by nothing else; with the model file absent no prompt is ever issued.
C6_SingleOuterCatch ==
    [][/\ (pc = "start" /\ modelFile # "valid") => pc' = "crashed"
       /\ (pc = "preprocess" /\ path \notin Images) => pc' = "crashed"
       /\ (error' # "None" /\ error = "None")
            => /\ pc' = "crashed"
               /\ out'[Len(out')].src = 111
               /\ CriticalCount(out') = 1
       /\ pc' = "crashed" => error' # "None"
       /\ CriticalCount(Printed) > 0 => (error = "None" /\ error' # "None")
       /\ pc = "crashed" => FALSE
       /\ modelFile = "absent" => (prompts' = 0 /\ diagnoseCalls' = 0)]_vars

\* C6 witness: the second diagnose call raised in preprocessing and the
\* script ended with the Critical Error line
C6_Witness ==
    /\ pc = "crashed"
    /\ error = "UnidentifiedImageError"
    /\ diagnoseCalls = 2
    /\ prompts = 2
    /\ CriticalCount(out) = 1

\* C8: diagnose on a path that does not exist prints the file-not-found line
\* and nothing else, runs neither preprocessing nor inference, raises
\* nothing, and returns to the prompt.
C8_MissingFile ==
    [][(pc = "diagnose" /\ path \notin FileSystem)
        => /\ Len(Printed) = 1
           /\ Printed[1].src = 54
           /\ pc' = "prompt"
           /\ processed_img' = "None"
           /\ predictions' = <<>>
           /\ error' = "None"
           /\ CriticalCount(out') = 0]_vars

\* C8 witness: back at the prompt after the file-not-found line for "c"
C8_Witness ==
    /\ pc = "prompt"
    /\ path = <<"c">>
    /\ Len(out) = 2
    /\ out[2].src = 54
    /\ error = "None"
    /\ prompts < MaxPrompts

\* C9: an input line ends the loop normally iff it is an exit command
\* (stripped, quotes removed, compared ignoring case); an exit command
\* causes no diagnose call; nothing runs after the normal end and no
\* Critical Error is printed; any other line leads to a diagnose call or
\* straight back to the prompt, and a diagnose call leads back to the
\* prompt unless an exception ends the script.
C9_ExitCommand ==
    /\ [][/\ InputStep
               => /\ (pc' = "done") <=> ExitCommand(raw')
                  /\ ExitCommand(raw') => diagnoseCalls' = diagnoseCalls
                  /\ ~ExitCommand(raw') => pc' \in {"prompt", "diagnose"}
          /\ (pc' = "done" /\ pc # "done") => InputStep
          /\ pc = "done" => FALSE]_vars
    /\ [](pc = "done" => (error = "None" /\ CriticalCount(out) = 0))
    /\ (InDiagnose ~> (pc = "prompt" \/ pc = "crashed"))

\* C9 witness: the loop ended on the line <space>QUIT<tab> after an earlier
\* diagnose call
C9_Witness ==
    /\ pc = "done"
    /\ raw = <<" ", "Q", "U", "I", "T", "\t">>
    /\ diagnoseCalls = 1
    /\ prompts = 2

====
